---- MODULE Spec2Model ----
(***************************************************************************)
(* Model of update.py: one run of main() (fetch every device, normalise    *)
(* to a status document, write status.json, append to history.csv, call    *)
(* clean_history_csv) and of clean_history_csv() called on its own.        *)
(*                                                                         *)
(* Time is counted in hours.  A timestamp string '%Y-%m-%d %H:%M:%S' is    *)
(* represented by the decimal numeral of its hour; every CSV cell is a     *)
(* string, as csv.reader returns it.  A CSV file is the sequence of its    *)
(* rows, a row the sequence of its cells; a blank line is the row << >>.   *)
(***************************************************************************)
EXTENDS Integers, Sequences, FiniteSets, TLC

\* ---- configuration (update.py:6-9) ------------------------------------
DEVICE_LIST == <<423297, 417598, 418297, 418351>>
DAYS_TO_KEEP == 3
HoursPerDay == 24
CsvShiftHours == 8
NumPorts == 12

\* ---- bounds of the model ----------------------------------------------
Now0 == 100        \* clock (hours) when the behaviour starts
MaxTicks == 1      \* hours the clock may advance during a run of main
MaxCleanTicks == 3 \* hours the clock may advance between compactions
MaxRows == 4       \* rows of an initial history log (compaction alone)
MaxCleans == 3     \* successive calls of clean_history_csv

Header == <<"timestamp", "device_id", "port", "current", "voltage", "power", "charge_status">>

\* ---- Python values ----------------------------------------------------
None == [isNone |-> TRUE]
EmptyDict == [k \in {} |-> 0]

\* dict.get(k, default)
Get(d, k, default) == IF k \in DOMAIN d THEN d[k] ELSE default

\* truth value of `if raw_data:` -- None and {} are false
Truthy(v) == v # None /\ DOMAIN v # {}

\* datetime.strftime('%Y-%m-%d %H:%M:%S')
strftime(t) == ToString(t)

\* the instants a timestamp string of the model can denote
Times == (Now0 - DAYS_TO_KEEP * HoursPerDay - 4) .. (Now0 + CsvShiftHours + MaxTicks + MaxCleanTicks + 4)

\* datetime.strptime(s, '%Y-%m-%d %H:%M:%S') raises ValueError on s
ValueError(s) == \A t \in Times : strftime(t) # s

\* datetime.strptime(s, '%Y-%m-%d %H:%M:%S') when it does not raise
strptime(s) == CHOOSE t \in Times : strftime(t) = s

\* ---- the remote API ---------------------------------------------------
FullItem(k) == [charge_status |-> 1, online |-> 1, current |-> k, voltage |-> 220, power |-> 2 * k]
PartialItem(k) == IF k % 2 = 1 THEN [current |-> k, online |-> 1] ELSE [voltage |-> 220]
ItemList(n) == [k \in 1..n |-> FullItem(k)]
PartialList(n) == [k \in 1..n |-> PartialItem(k)]

Ok0 == [code |-> 0, msg |-> "success", data |-> [list |-> << >>]]
Ok12 == [code |-> 0, msg |-> "success", data |-> [list |-> ItemList(12)]]
Err5 == [code |-> 1, msg |-> "busy", data |-> [list |-> PartialList(5)]]
Err20 == [code |-> 2, data |-> [list |-> ItemList(20)]]

\* decoded bodies the API answers with: {code, msg?, data: {list: [...]}}
Bodies == {EmptyDict, Ok0, Ok12, Err5, Err20}

\* what requests.get(...) followed by response.json() does
Outcomes == {[exc |-> "Timeout"], [exc |-> "JSONDecodeError"]} \cup {[json |-> b] : b \in Bodies}

\* an exception leaving a function
Raised(e) == [raised |-> e]
IsRaised(v) == "raised" \in DOMAIN v

\* faulty variant: no try/except around the request
fetch_device_data_nocatch(outcome) ==
    IF "exc" \in DOMAIN outcome THEN Raised(outcome.exc) ELSE outcome.json

\* fetch_device_data: the decoded body, or None on any exception
fetch_device_data(outcome) ==
    IF "exc" \in DOMAIN outcome THEN None ELSE outcome.json

\* ---- normalisation (main, loop body) ----------------------------------
response_list(raw_data) == Get(Get(raw_data, "data", EmptyDict), "list", << >>)

port_info(p, item) ==
    [port_number |-> p,
     current |-> Get(item, "current", 0),
     voltage |-> Get(item, "voltage", 0),
     power |-> Get(item, "power", 0),
     status |-> Get(item, "charge_status", 0),
     online |-> Get(item, "online", 0)]

zero_port(p) == [port_number |-> p, current |-> 0, voltage |-> 0, power |-> 0, status |-> 0, online |-> 0]

\* device_info['ports'] at the end of the loop body
ports_of(raw_data) ==
    IF Truthy(raw_data)
    THEN [p \in 1..NumPorts |->
            IF p <= Len(response_list(raw_data))
            THEN port_info(p, response_list(raw_data)[p])
            ELSE zero_port(p)]
    ELSE << >>

\* faulty variant: the application error is not recorded
error_of_silent(raw_data) ==
    IF Truthy(raw_data) THEN EmptyDict ELSE [error |-> "Fetch failed"]

\* the optional 'error' key of device_info
error_of(raw_data) ==
    IF Truthy(raw_data)
    THEN IF Get(raw_data, "code", -1) # 0
         THEN [error |-> "API Error: " \o Get(raw_data, "msg", "Unknown")]
         ELSE EmptyDict
    ELSE [error |-> "Fetch failed"]

device_info(i, device_id, raw_data, timestamp) ==
    [id |-> device_id, name |-> "pile" \o ToString(i), updated_at |-> timestamp, ports |-> ports_of(raw_data)]
      @@ error_of(raw_data)

history_row(csv_timestamp, device_id, p, item) ==
    <<csv_timestamp, ToString(device_id), ToString(p),
      ToString(Get(item, "current", 0)), ToString(Get(item, "voltage", 0)),
      ToString(Get(item, "power", 0)), ToString(Get(item, "charge_status", 0))>>

Min(a, b) == IF a < b THEN a ELSE b

\* faulty variant: a device without data logs twelve zeroed rows
device_records_zeroed(csv_timestamp, device_id, raw_data) ==
    IF Truthy(raw_data)
    THEN [p \in 1..Min(Len(response_list(raw_data)), NumPorts) |->
            history_row(csv_timestamp, device_id, p, response_list(raw_data)[p])]
    ELSE [p \in 1..NumPorts |-> history_row(csv_timestamp, device_id, p, EmptyDict)]

\* the rows the loop body adds to history_records for one device
device_records(csv_timestamp, device_id, raw_data) ==
    IF Truthy(raw_data)
    THEN [p \in 1..Min(Len(response_list(raw_data)), NumPorts) |->
            history_row(csv_timestamp, device_id, p, response_list(raw_data)[p])]
    ELSE << >>

\* ---- clean_history_csv -------------------------------------------------
\* the test `row_time > cutoff_time`
in_window(row_time, cutoff_time) == row_time > cutoff_time

\* the loop over the rows after the header: row[0] raises IndexError on a
\* row without cells, which `except ValueError` does not catch; strptime
\* raises ValueError, which skips the row
RECURSIVE scan_rows(_, _, _)
scan_rows(rest, new_rows, cutoff_time) ==
    IF rest = << >>
    THEN [exc |-> "", new_rows |-> new_rows]
    ELSE LET row == Head(rest) IN
         IF Len(row) = 0
         THEN [exc |-> "IndexError", new_rows |-> new_rows]
         ELSE IF ValueError(row[1])
         THEN scan_rows(Tail(rest), new_rows, cutoff_time)
         ELSE IF in_window(strptime(row[1]), cutoff_time)
         THEN scan_rows(Tail(rest), Append(new_rows, row), cutoff_time)
         ELSE scan_rows(Tail(rest), new_rows, cutoff_time)

\* faulty variant: the header is not written back
write_back_headerless(header, new_rows) == new_rows

\* the rewrite: `if header: writer.writerow(header)`, then the kept rows
write_back(header, new_rows) ==
    (IF header # << >> THEN <<header>> ELSE << >>) \o new_rows

\* the rows of HISTORY_FILE after clean_history_csv() read the clock as now
clean_history_csv(exists, rows, now) ==
    IF ~exists THEN rows
    ELSE IF rows = << >> THEN rows
    ELSE LET cutoff_time == now - DAYS_TO_KEEP * HoursPerDay
             scan == scan_rows(Tail(rows), << >>, cutoff_time)
         IN IF scan.exc # "" THEN rows
            ELSE write_back(Head(rows), scan.new_rows)

\* ---- state -------------------------------------------------------------
VARIABLES
    pc,               \* position: start, fetch, status, append, clean, done, crashed, idle
    clock,            \* datetime.now(), in hours
    ticks,            \* hours elapsed since the behaviour started
    timestamp,        \* main: now.strftime(...)
    csv_timestamp,    \* main: (now + 8 hours).strftime(...)
    frontend_data,    \* main: snapshots built so far
    history_records,  \* main: rows to append
    statusFile,       \* status.json: [state, doc]
    historyExists,    \* os.path.exists(HISTORY_FILE)
    historyFile,      \* rows of history.csv
    fetched,          \* history: what fetch_device_data returned, per device
    steps,            \* history: persistence steps taken in this run
    cleanIn,          \* history: rows of history.csv when clean_history_csv was last entered
    cleanNow,         \* history: the clock value clean_history_csv last read
    cleans            \* history: calls of clean_history_csv since the last write to the log

vars == <<pc, clock, ticks, timestamp, csv_timestamp, frontend_data, history_records,
          statusFile, historyExists, historyFile, fetched, steps, cleanIn, cleanNow, cleans>>

locals == <<timestamp, csv_timestamp, frontend_data, history_records, fetched>>
cleanHist == <<cleanIn, cleanNow, cleans>>

\* ---- initial states ---------------------------------------------------
Cutoff0 == Now0 - DAYS_TO_KEEP * HoursPerDay
LogRow(t) == <<strftime(t), "423297", "1", "0", "0", "0", "0">>
ShortRow(t) == <<strftime(t), "423297">>
BadTimeRow == <<"yesterday", "423297", "1", "0", "0", "0", "0">>
BlankRow == << >>

\* a status document left by an earlier run in which every fetch failed
OldDoc ==
    [k \in 1..Len(DEVICE_LIST) |->
        [id |-> DEVICE_LIST[k], name |-> "pile" \o ToString(k),
         updated_at |-> strftime(Now0 - 1), ports |-> << >>, error |-> "Fetch failed"]]

\* history logs main may find: absent, zero bytes, header only, header plus rows
PriorLogs ==
    {[exists |-> FALSE, rows |-> << >>],
     [exists |-> TRUE, rows |-> << >>],
     [exists |-> TRUE, rows |-> <<Header>>],
     [exists |-> TRUE, rows |-> <<Header, LogRow(Cutoff0), LogRow(Cutoff0 + 2)>>],
     [exists |-> TRUE, rows |-> <<Header, BlankRow, LogRow(Cutoff0)>>]}

Init ==
    /\ pc = "start"
    /\ clock = Now0
    /\ ticks = 0
    /\ timestamp = ""
    /\ csv_timestamp = ""
    /\ frontend_data = << >>
    /\ history_records = << >>
    /\ statusFile = [state |-> "valid", doc |-> OldDoc]
    /\ \E log \in PriorLogs : historyExists = log.exists /\ historyFile = log.rows
    /\ fetched = << >>
    /\ steps = << >>
    /\ cleanIn = << >>
    /\ cleanNow = 0
    /\ cleans = 0

\* ---- main -------------------------------------------------------------
\* lines 68-76
Start ==
    /\ pc = "start"
    /\ pc' = "fetch"
    /\ timestamp' = strftime(clock)
    /\ csv_timestamp' = strftime(clock + CsvShiftHours)
    /\ frontend_data' = << >>
    /\ history_records' = << >>
    /\ UNCHANGED <<clock, ticks, statusFile, historyExists, historyFile, fetched, steps, cleanHist>>

\* one iteration of `for i, device_id in enumerate(DEVICE_LIST)`
FetchDevice ==
    /\ pc = "fetch"
    /\ \E outcome \in Outcomes :
        LET i == Len(frontend_data) + 1
            device_id == DEVICE_LIST[i]
            raw_data == fetch_device_data(outcome)
        IN IF IsRaised(raw_data)
           THEN /\ pc' = "crashed"
                /\ UNCHANGED <<frontend_data, history_records, fetched>>
           ELSE /\ frontend_data' = Append(frontend_data, device_info(i, device_id, raw_data, timestamp))
                /\ history_records' = history_records \o device_records(csv_timestamp, device_id, raw_data)
                /\ fetched' = Append(fetched, raw_data)
                /\ pc' = IF i = Len(DEVICE_LIST) THEN "status" ELSE "fetch"
    /\ UNCHANGED <<clock, ticks, timestamp, csv_timestamp, statusFile, historyExists, historyFile, steps, cleanHist>>

\* time.sleep(1) and the requests: the clock moves on during the loop
Tick ==
    /\ pc = "fetch"
    /\ ticks < MaxTicks
    /\ clock' = clock + 1
    /\ ticks' = ticks + 1
    /\ UNCHANGED <<pc, locals, statusFile, historyExists, historyFile, steps, cleanHist>>

IOResults == {"ok", "open_fails", "write_fails"}

\* status.json after open(STATUS_FILE, 'w') and json.dump
status_written(io, old, doc) ==
    IF io = "ok" THEN [state |-> "valid", doc |-> doc]
    ELSE IF io = "open_fails" THEN old
    ELSE [state |-> "truncated", doc |-> << >>]

\* faulty variant: the exception of the status write is not caught
WriteStatus_nocatch ==
    /\ pc = "status"
    /\ \E io \in IOResults :
        /\ statusFile' = status_written(io, statusFile, frontend_data)
        /\ pc' = IF io = "ok" THEN "append" ELSE "crashed"
        /\ steps' = IF io = "ok" THEN Append(steps, "status ok") ELSE steps
    /\ UNCHANGED <<clock, ticks, locals, historyExists, historyFile, cleanHist>>

\* 1. Save Frontend Status JSON (lines 141-146)
WriteStatus ==
    /\ pc = "status"
    /\ \E io \in IOResults :
        /\ statusFile' = status_written(io, statusFile, frontend_data)
        /\ steps' = Append(steps, IF io = "ok" THEN "status ok" ELSE "status failed")
    /\ pc' = "append"
    /\ UNCHANGED <<clock, ticks, locals, historyExists, historyFile, cleanHist>>

\* history.csv after a successful append: header only if the file did not exist
appended(exists, rows, records) ==
    rows \o (IF ~exists THEN <<Header>> ELSE << >>) \o records

\* 2. Append to History CSV (lines 149-158); a failed write leaves the
\* file created by open(..., 'a') with nothing added
AppendHistory ==
    /\ pc = "append"
    /\ \E io \in IOResults :
        /\ historyExists' = IF io = "open_fails" THEN historyExists ELSE TRUE
        /\ historyFile' = IF io = "ok" THEN appended(historyExists, historyFile, history_records) ELSE historyFile
        /\ steps' = Append(steps, IF io = "ok" THEN "append ok" ELSE "append failed")
        /\ cleans' = IF io = "ok" THEN 0 ELSE cleans
    /\ pc' = "clean"
    /\ UNCHANGED <<clock, ticks, locals, statusFile, cleanIn, cleanNow>>

\* 3. Clean Old History (line 161)
CleanHistory ==
    /\ pc = "clean"
    /\ historyFile' = clean_history_csv(historyExists, historyFile, clock)
    /\ cleanIn' = historyFile
    /\ cleanNow' = clock
    /\ cleans' = cleans + 1
    /\ steps' = Append(steps, "clean")
    /\ pc' = "done"
    /\ UNCHANGED <<clock, ticks, locals, statusFile, historyExists>>

Next == Start \/ FetchDevice \/ Tick \/ WriteStatus \/ AppendHistory \/ CleanHistory

Spec == Init /\ [][Next]_vars

\* ---- clean_history_csv called on its own --------------------------------
\* rows a history log may hold when the compactor finds it
RowKinds == {Header, BlankRow, BadTimeRow, ShortRow(Cutoff0 + 1),
             LogRow(Cutoff0), LogRow(Cutoff0 + 1), LogRow(Cutoff0 + 2)}

InitLogs == UNION {[1..n -> RowKinds] : n \in 0..MaxRows}

InitClean ==
    /\ pc = "idle"
    /\ clock = Now0
    /\ ticks = 0
    /\ timestamp = ""
    /\ csv_timestamp = ""
    /\ frontend_data = << >>
    /\ history_records = << >>
    /\ statusFile = [state |-> "absent", doc |-> << >>]
    /\ historyExists \in BOOLEAN
    /\ historyFile \in InitLogs
    /\ historyExists = FALSE => historyFile = << >>
    /\ fetched = << >>
    /\ steps = << >>
    /\ cleanIn = << >>
    /\ cleanNow = 0
    /\ cleans = 0

\* a call of clean_history_csv() with no run of main around it
CallClean ==
    /\ pc = "idle"
    /\ cleans < MaxCleans
    /\ historyFile' = clean_history_csv(historyExists, historyFile, clock)
    /\ cleanIn' = historyFile
    /\ cleanNow' = clock
    /\ cleans' = cleans + 1
    /\ UNCHANGED <<pc, clock, ticks, locals, statusFile, historyExists, steps>>

\* time passing between two calls
Elapse ==
    /\ pc = "idle"
    /\ ticks < MaxCleanTicks
    /\ clock' = clock + 1
    /\ ticks' = ticks + 1
    /\ UNCHANGED <<pc, locals, statusFile, historyExists, historyFile, steps, cleanHist>>

NextClean == CallClean \/ Elapse

SpecClean == InitClean /\ [][NextClean]_vars

\* ======================= properties ======================================
Devices == 1..Len(fetched)
RowsOf(records, device_id) ==
    SelectSeq(records, LAMBDA r : Len(r) >= 2 /\ r[1] = csv_timestamp /\ r[2] = ToString(device_id))
Parses(row) == Len(row) > 0 /\ ~ValueError(row[1])
Cutoff(now) == now - DAYS_TO_KEEP * HoursPerDay
Recent(row, now) == Parses(row) /\ strptime(row[1]) > Cutoff(now)
Expired(row, now) == Parses(row) /\ strptime(row[1]) <= Cutoff(now)
Compacted == cleans >= 1 /\ historyExists /\ cleanIn # << >>

\* C1: every snapshot built by main has exactly 12 ports, numbered 1..12 in
\* order, whatever the fetch outcome (failed fetch included).
C1_TwelvePorts ==
    \A k \in 1..Len(frontend_data) :
        /\ Len(frontend_data[k].ports) = NumPorts
        /\ \A p \in 1..NumPorts : frontend_data[k].ports[p].port_number = p

\* C2: after a completed run of main a non-empty history log starts with
\* the header row, whatever the log was before the run.
C2_HeaderFirst ==
    (pc = "done" /\ historyExists /\ historyFile # << >>) => historyFile[1] = Header

\* C3: after a completed run of main every non-header row of the history
\* log has a timestamp strictly greater than the clock value read by
\* clean_history_csv minus DAYS_TO_KEEP days.
C3_RetentionWindow ==
    pc = "done" =>
        \A k \in 1..Len(historyFile) :
            historyFile[k] # Header => Recent(historyFile[k], cleanNow)

\* C4: clean_history_csv skips, and neither fails on nor retains, a row
\* without columns or with an unparsable timestamp; a log of header, recent
\* row, malformed row with fewer columns, expired row is rewritten to
\* header and recent row.
C4_SkipsMalformed ==
    (Compacted /\ cleanIn[1] = Header) =>
        /\ \A k \in 2..Len(historyFile) : Parses(historyFile[k])
        /\ (/\ Len(cleanIn) = 4
            /\ Recent(cleanIn[2], cleanNow)
            /\ Len(cleanIn[3]) < Len(Header) /\ ~Parses(cleanIn[3])
            /\ Expired(cleanIn[4], cleanNow))
           => historyFile = <<Header, cleanIn[2]>>

\* C5: clean_history_csv keeps the header and exactly the rows whose
\* timestamp parses and is strictly greater than now - DAYS_TO_KEEP days,
\* in their original order.
C5_KeepsExactlyRecent ==
    (Compacted /\ cleanIn[1] = Header) =>
        historyFile = <<Header>> \o SelectSeq(Tail(cleanIn), LAMBDA r : Recent(r, cleanNow))

\* C6 (as claimed): the second of two successive calls of clean_history_csv
\* with no write in between leaves the file as the first call left it.
C6_Idempotent ==
    cleans >= 2 => historyFile = cleanIn

\* C6 (amended): the second of two successive calls leaves the file as the
\* first call left it, provided no row of that file has left the retention
\* window by the time the second call reads the clock.
C6_IdempotentSameWindow ==
    (cleans >= 2 /\ \A k \in 2..Len(cleanIn) : ~Expired(cleanIn[k], cleanNow))
        => historyFile = cleanIn

C6_Witness ==
    /\ cleans >= 2
    /\ ticks >= 1
    /\ Len(historyFile) >= 3
    /\ historyFile[1] = Header
    /\ \A k \in 2..Len(cleanIn) : ~Expired(cleanIn[k], cleanNow)

\* C7: a device whose fetch returned None gets error "Fetch failed" and no
\* history row; every other device contributes one row per list entry, up
\* to 12.
C7_FetchFailed ==
    \A k \in Devices :
        /\ fetched[k] = None =>
            /\ "error" \in DOMAIN frontend_data[k]
            /\ frontend_data[k].error = "Fetch failed"
            /\ RowsOf(history_records, DEVICE_LIST[k]) = << >>
        /\ fetched[k] # None =>
            Len(RowsOf(history_records, DEVICE_LIST[k])) = Min(Len(response_list(fetched[k])), NumPorts)
        /\ (pc = "done" /\ steps[2] = "append ok") =>
            Len(RowsOf(historyFile, DEVICE_LIST[k])) = Len(RowsOf(history_records, DEVICE_LIST[k]))

C7_Witness ==
    /\ pc = "done"
    /\ steps[2] = "append ok"
    /\ fetched[2] = None
    /\ fetched[3] = Ok12
    /\ Len(RowsOf(historyFile, DEVICE_LIST[3])) = NumPorts

C9_StepOrder ==
    /\ pc # "crashed"
    /\ pc \in {"start", "fetch", "status"} => steps = << >>
    /\ pc \in {"append", "clean", "done"} => steps[1] \in {"status ok", "status failed"}
    /\ pc \in {"clean", "done"} => steps[2] \in {"append ok", "append failed"}
    /\ pc = "append" => Len(steps) = 1
    /\ pc = "clean" => Len(steps) = 2
    /\ pc = "done" => Len(steps) = 3 /\ steps[3] = "clean" /\ cleans >= 1
    /\ (pc \in {"clean", "done"} /\ steps = <<"status ok", "append failed">> \o SubSeq(steps, 3, Len(steps)))
        => statusFile.state = "valid" /\ statusFile.doc = frontend_data

C9_Witness ==
    /\ pc = "done"
    /\ steps = <<"status failed", "append failed", "clean">>
    /\ statusFile.state = "truncated"
    /\ history_records # << >>

\* C10: a response with code # 0 and a non-empty list gives a snapshot whose
\* error comes from msg (or the fallback label) and whose slots
\* 1..min(len(list), 12) copy the list entries, absent fields being 0.
C10_ErrorWithPorts ==
    \A k \in Devices :
        LET raw == fetched[k]
            list == response_list(raw)
            snap == frontend_data[k]
        IN (Truthy(raw) /\ Get(raw, "code", -1) # 0 /\ Len(list) > 0) =>
            /\ "error" \in DOMAIN snap
            /\ snap.error = IF "msg" \in DOMAIN raw THEN "API Error: " \o raw.msg ELSE "API Error: Unknown"
            /\ Len(snap.ports) >= Min(Len(list), NumPorts)
            /\ \A p \in 1..Min(Len(list), NumPorts) :
                /\ snap.ports[p].port_number = p
                /\ snap.ports[p].current = (IF "current" \in DOMAIN list[p] THEN list[p].current ELSE 0)
                /\ snap.ports[p].voltage = (IF "voltage" \in DOMAIN list[p] THEN list[p].voltage ELSE 0)
                /\ snap.ports[p].power = (IF "power" \in DOMAIN list[p] THEN list[p].power ELSE 0)
                /\ snap.ports[p].status = (IF "charge_status" \in DOMAIN list[p] THEN list[p].charge_status ELSE 0)
                /\ snap.ports[p].online = (IF "online" \in DOMAIN list[p] THEN list[p].online ELSE 0)

C10_Witness ==
    /\ Len(fetched) = Len(DEVICE_LIST)
    /\ fetched[1] = Err5
    /\ fetched[2] = Err20
    /\ frontend_data[1].error = "API Error: busy"
    /\ frontend_data[1].ports[2].voltage = 220
    /\ frontend_data[1].ports[2].current = 0
    /\ frontend_data[2].error = "API Error: Unknown"
    /\ frontend_data[2].ports[12].power = 24

====
